---- MODULE Spec2Model ----
(***************************************************************************)
(* Synverta news renderer (src/assets/js/news.js): the memoised fetch of   *)
(* the news feed, the date sort, the list renderer and the three page      *)
(* initialisers started on DOMContentLoaded.                               *)
(*                                                                         *)
(* JavaScript values are records with a "type" field, so that null, arrays *)
(* and strings can be compared.  An array carries the identity ("id") of   *)
(* the object: 0 for an array literal, n > 0 for the array parsed from the *)
(* body of the n-th request.  The Chinese string literals of the source    *)
(* are written in pinyin.                                                  *)
(***************************************************************************)
EXTENDS Integers, Sequences, FiniteSets

VARIABLES
    dataLang,    \* <html data-lang="...">, or Unset
    dom,         \* container id -> innerHTML (a sequence of elements); DOMAIN dom = ids in the page
    feed,        \* the body the server holds at /data/news-<lang>.json
    newsCache,   \* the module variable newsCache
    requests,    \* URLs passed to fetch(), in order
    pc,          \* per fetchNews() call: where the call stands
    result,      \* per fetchNews() call: the value its promise fulfilled with
    started,     \* initialiser -> idle | awaiting | returned
    loaded,      \* DOMContentLoaded has fired
    reqOf,       \* per fetchNews() call: the number of the request it issued, or 0
    uncaught,    \* an exception escaped a handler or a promise rejected unhandled
    call,        \* the direct call of a synchronous function, its arguments
    ret          \* what that call returned and left behind

vars == <<dataLang, dom, feed, newsCache, requests, pc, result, reqOf, started,
          loaded, uncaught, call, ret>>

----------------------------------------------------------------------------
(* Bounds of the model *)

\* fetchNews() calls made by code other than the page initialiser
MaxCalls == 2
\* longest feed of the page-load specifications
MaxFeed == 2
\* longest feed (valid dates only) of the homepage specification
MaxHomeFeed == 6
\* longest argument of a direct sortNewsByDate call
MaxSortLen == 4
\* longest argument of a direct renderNewsList call
MaxRenderLen == 2

----------------------------------------------------------------------------
(* JavaScript values *)

JSNull == [type |-> "null", id |-> 0, items |-> <<>>]
JSUndefined == [type |-> "undefined", id |-> 0, items |-> <<>>]
JSArray(id, items) == [type |-> "array", id |-> id, items |-> items]
\* a string passed as an optional argument
JSString(s) == [type |-> "string", id |-> 0, items |-> <<s>>]

\* ToBoolean: null, undefined and "" are falsy; every array (also []) is truthy
Truthy(v) ==
    CASE v.type = "null" -> FALSE
      [] v.type = "undefined" -> FALSE
      [] v.type = "string" -> v.items[1] # ""
      [] OTHER -> TRUE

Unset == "(unset)"

\* getCurrentLanguage: 'en' only for data-lang="en"
GetCurrentLanguage(lang) == IF lang = "en" THEN "en" ELSE "zh"

----------------------------------------------------------------------------
(* getCategoryLabel *)

\* the labels object literal
Labels ==
    [zh |-> [industry |-> "Hangye Zixun", product |-> "Chanpin Dongtai",
             company |-> "Gongsi Xinwen"],
     en |-> [industry |-> "Industry News", product |-> "Product Updates",
             company |-> "Company News"]]

\* A property read on an object literal finds what Object.prototype holds too.
ObjectPrototype ==
    {"constructor", "toString", "toLocaleString", "valueOf", "hasOwnProperty",
     "isPrototypeOf", "propertyIsEnumerable"}

NoProperty == "(undefined)"
NativeFunction == "function () { [native code] }"

\* obj[key]
GetProperty(obj, key) ==
    IF key \in DOMAIN obj THEN obj[key]
    ELSE IF key \in ObjectPrototype THEN NativeFunction
    ELSE NoProperty

\* labels[lang][category] || category   (every value found is truthy)
GetCategoryLabel(category, lang) ==
    LET found == GetProperty(Labels[GetCurrentLanguage(lang)], category)
    IN IF found # NoProperty THEN found ELSE category

----------------------------------------------------------------------------
(* sortNewsByDate *)

\* new Date(s).getTime(), in days since 1970-01-01; nan for an Invalid Date
NewDate(s) ==
    CASE s = "2024-01-01" -> [nan |-> FALSE, n |-> 19723]
      [] s = "2024-03-01" -> [nan |-> FALSE, n |-> 19783]
      [] s = "2024-03-01T00:00:00Z" -> [nan |-> FALSE, n |-> 19783]
      [] OTHER -> [nan |-> TRUE, n |-> 0]

\* x - y on numbers: NaN when either is
Minus(x, y) ==
    IF x.nan \/ y.nan THEN [nan |-> TRUE, n |-> 0] ELSE [nan |-> FALSE, n |-> x.n - y.n]

\* the comparator: new Date(b.date) - new Date(a.date)
CompareFn(a, b) == Minus(NewDate(b.date), NewDate(a.date))

\* Array.prototype.sort reads a NaN from the comparator as +0
SortCompare(a, b) ==
    LET v == CompareFn(a, b) IN IF v.nan THEN 0 ELSE v.n

\* ECMA-262: the comparator is consistent on the values sorted
ConsistentComparator(items) ==
    LET S == {items[i] : i \in 1..Len(items)}
        lt(a, b) == SortCompare(a, b) < 0
        eq(a, b) == SortCompare(a, b) = 0
        gt(a, b) == SortCompare(a, b) > 0
    IN \A a \in S : \A b \in S :
          /\ eq(a, a)
          /\ (eq(a, b) => eq(b, a))
          /\ (lt(a, b) => gt(b, a))
          /\ \A c \in S :
                /\ (eq(a, b) /\ eq(b, c) => eq(a, c))
                /\ (lt(a, b) /\ lt(b, c) => lt(a, c))
                /\ (gt(a, b) /\ gt(b, c) => gt(a, c))

\* x put after the last element that does not sort after it
InsertSorted(s, x) ==
    LET after == {j \in 1..Len(s) : SortCompare(s[j], x) <= 0}
        k == IF after = {} THEN 0 ELSE CHOOSE j \in after : \A i \in after : i <= j
    IN SubSeq(s, 1, k) \o <<x>> \o SubSeq(s, k + 1, Len(s))

RECURSIVE StableSort(_)
StableSort(items) ==
    IF items = <<>> THEN <<>>
    ELSE InsertSorted(StableSort(SubSeq(items, 1, Len(items) - 1)), items[Len(items)])

\* s without its i-th element
Without(s, i) == SubSeq(s, 1, i - 1) \o SubSeq(s, i + 1, Len(s))

RECURSIVE Permutations(_)
Permutations(items) ==
    IF items = <<>> THEN {<<>>}
    ELSE UNION {{<<items[i]>> \o rest : rest \in Permutations(Without(items, i))} :
                    i \in 1..Len(items)}

\* Array.prototype.sort: the stable order under a consistent comparator, an
\* implementation-defined order of the same elements otherwise
ArraySort(items) ==
    IF ConsistentComparator(items) THEN {StableSort(items)} ELSE Permutations(items)

\* sortNewsByDate sorting its argument in place
SortInPlace(newsItems) ==
    {[returned |-> s, input |-> s] : s \in ArraySort(newsItems)}

\* sortNewsByDate returning the oldest item first
SortAscending(newsItems) ==
    {[returned |-> [i \in 1..Len(s) |-> s[Len(s) + 1 - i]], input |-> newsItems] :
        s \in ArraySort(newsItems)}

\* sortNewsByDate(newsItems): [...newsItems].sort(...); what it returns and what
\* the argument holds afterwards
SortNewsByDate(newsItems) ==
    {[returned |-> s, input |-> newsItems] : s \in ArraySort(newsItems)}

----------------------------------------------------------------------------
(* renderNewsItem, renderNewsList *)

\* The elements of a container's innerHTML.  An item's url and summary are
\* copied into its fragment as its title is, and are left out.
Element(class, text, item, label, badge) ==
    [class |-> class, text |-> text, title |-> item.title, date |-> item.date,
     categoryLabel |-> label, featuredBadge |-> badge, tags |-> item.tags]

NoItem == [title |-> "", date |-> "", category |-> "", featured |-> FALSE, tags |-> <<>>]

\* what a container of the page holds before any render
StaticContent == <<Element("static", "", NoItem, "", "")>>

\* <li class="empty-state">${emptyMessage}</li>
EmptyState(emptyMessage) == Element("empty-state", emptyMessage, NoItem, "", "")

\* renderNewsItem(item): the badge text is the same in both languages
RenderNewsItem(item, lang) ==
    Element("news-item", "", item, GetCategoryLabel(item.category, lang),
            IF item.featured THEN "Jingxuan" ELSE "")

\* document.getElementById(containerId): <<>> is null
GetElementById(d, containerId) ==
    IF containerId \in DOMAIN d THEN <<containerId>> ELSE <<>>

\* container.innerHTML = html; a TypeError on a null container
SetInnerHTML(d, container, html) ==
    IF container = <<>> THEN [dom |-> d, threw |-> TRUE]
    ELSE [dom |-> [d EXCEPT ![container[1]] = html], threw |-> FALSE]

\* the default empty message of the active language
DefaultEmptyMessage(lang) ==
    IF GetCurrentLanguage(lang) = "en" THEN "No news in this category yet."
    ELSE "Gai lanmu zanshi meiyou xinwen."

\* renderNewsList past its container check
RenderInto(d, lang, container, items, emptyMessage) ==
    LET message == IF ~Truthy(emptyMessage) THEN DefaultEmptyMessage(lang)
                   ELSE emptyMessage.items[1]
    IN IF ~Truthy(items) \/ Len(items.items) = 0
       THEN SetInnerHTML(d, container, <<EmptyState(message)>>)
       ELSE SetInnerHTML(d, container,
                [i \in 1..Len(items.items) |-> RenderNewsItem(items.items[i], lang)])

\* renderNewsList without the check for a missing container
RenderNewsListUnchecked(d, lang, containerId, items, emptyMessage) ==
    RenderInto(d, lang, GetElementById(d, containerId), items, emptyMessage)

\* renderNewsList adding to the container's content instead of replacing it
RenderNewsListAppending(d, lang, containerId, items, emptyMessage) ==
    LET container == GetElementById(d, containerId)
        r == RenderInto(d, lang, container, items, emptyMessage)
    IN IF container = <<>> THEN [dom |-> d, threw |-> FALSE]
       ELSE [dom |-> [d EXCEPT ![containerId] = d[containerId] \o r.dom[containerId]],
             threw |-> r.threw]

\* renderNewsList(containerId, items, emptyMessage) on the page d
RenderNewsList(d, lang, containerId, items, emptyMessage) ==
    LET container == GetElementById(d, containerId)
    IN IF container = <<>> THEN [dom |-> d, threw |-> FALSE]
       ELSE RenderInto(d, lang, container, items, emptyMessage)

----------------------------------------------------------------------------
(* fetchNews *)

\* call 0 is the page initialiser's; the others are made by other code of the page
Calls == 0..MaxCalls

\* `/data/news-${lang}.json`
JsonFile(lang) == IF GetCurrentLanguage(lang) = "en" THEN "/data/news-en.json"
                  ELSE "/data/news-zh.json"

\* how the fetch() promise settles
Responses == {"network-error", "status-404", "status-200"}
ResponseOk(r) == r = "status-200"

\* fetchNews treating an empty cached array as no cache
CacheHitNonEmpty(cache) == Truthy(cache) /\ Len(cache.items) > 0

\* if (newsCache)
CacheHit(cache) == Truthy(cache)

\* the catch block storing the empty array it returns
OnErrorCaching(cache) ==
    [pc |-> "fulfilled", value |-> JSArray(0, <<>>), cache |-> JSArray(0, <<>>)]

\* the catch block: log, return []
OnError(cache) == [pc |-> "fulfilled", value |-> JSArray(0, <<>>), cache |-> cache]

\* response.json() on the body the server holds: the array is a new object
ParseBody(body, req) == IF body.type = "array" THEN JSArray(req, body.items) ELSE JSNull

\* fetchNews() up to its first await
FetchNews(c) ==
    /\ pc[c] = "idle"
    /\ IF CacheHit(newsCache)
       THEN /\ pc' = [pc EXCEPT ![c] = "fulfilled"]
            /\ result' = [result EXCEPT ![c] = newsCache]
            /\ UNCHANGED <<requests, reqOf>>
       ELSE /\ requests' = Append(requests, JsonFile(dataLang))
            /\ reqOf' = [reqOf EXCEPT ![c] = Len(requests) + 1]
            /\ pc' = [pc EXCEPT ![c] = "fetch"]
            /\ UNCHANGED result
    /\ UNCHANGED <<newsCache, feed, dataLang>>

\* a settled call: its promise's state, its value, and newsCache
Settle(c, s) ==
    /\ pc' = [pc EXCEPT ![c] = s.pc]
    /\ result' = [result EXCEPT ![c] = s.value]
    /\ newsCache' = s.cache

\* fetchNews() called by other code of the page
FetchNewsCall(c) ==
    /\ c # 0
    /\ FetchNews(c)
    /\ UNCHANGED <<dom, started, loaded, uncaught, call, ret>>

\* await fetch(jsonFile) settles: a rejection and a non-ok status end in the catch
FetchSettles(c) ==
    /\ pc[c] = "fetch"
    /\ \E r \in Responses :
          IF ResponseOk(r)
          THEN /\ pc' = [pc EXCEPT ![c] = "json"]
               /\ UNCHANGED <<result, newsCache>>
          ELSE Settle(c, OnError(newsCache))
    /\ UNCHANGED <<dataLang, dom, feed, requests, reqOf, started, loaded, uncaught, call, ret>>

\* await response.json() settles
JsonSettles(c) ==
    /\ pc[c] = "json"
    /\ IF feed.type = "malformed"
       THEN Settle(c, OnError(newsCache))
       ELSE LET parsed == ParseBody(feed, reqOf[c])
            IN Settle(c, [pc |-> "fulfilled", value |-> parsed, cache |-> parsed])
    /\ UNCHANGED <<dataLang, dom, feed, requests, reqOf, started, loaded, uncaught, call, ret>>

----------------------------------------------------------------------------
(* The page initialisers and the DOMContentLoaded handler *)

ContainerIds ==
    {"latest-news-list", "featured-news-list", "home-breaking-news-list",
     "home-market-insights-list", "home-supply-chain-analysis-list",
     "industry-news-list", "category-news-list"}

Initializers == {"initHomepage", "initIndustryNewsPage", "initCategoryPage"}

\* sortedNews.slice(0, 5), .slice(0, 3) of the featured, .slice(0, 3) per category
LatestCount == 5
FeaturedCount == 3
CategoryCount == 3

\* s.slice(0, n)
Slice(s, n) == SubSeq(s, 1, IF Len(s) < n THEN Len(s) ELSE n)

IsFeatured(item) == item.featured
OfCategory(s, category) == SelectSeq(s, LAMBDA item : item.category = category)

\* categoryMappings: every navigation list shows the industry news
CategoryMappings ==
    << [navId |-> "home-breaking-news-list", dataCategory |-> "industry"],
       [navId |-> "home-market-insights-list", dataCategory |-> "industry"],
       [navId |-> "home-supply-chain-analysis-list", dataCategory |-> "industry"] >>

\* if (!newsItems || newsItems.length === 0) return;
NothingToShow(newsItems) == ~Truthy(newsItems) \/ Len(newsItems.items) = 0

\* one more renderNewsList call on the outcome r of the calls before it
ThenRender(r, lang, containerId, items, emptyMessage) ==
    IF r.threw THEN r
    ELSE RenderNewsList(r.dom, lang, containerId, JSArray(0, items), emptyMessage)

\* the renders of initHomepage on sortedNews
RenderHomepage(d, lang, sortedNews) ==
    LET en == GetCurrentLanguage(lang) = "en"
        latest5 == Slice(sortedNews, LatestCount)
        latestEmptyMsg == IF en THEN "No news available yet." ELSE "Zanwu zuixin xinwen."
        featured == Slice(SelectSeq(sortedNews, IsFeatured), FeaturedCount)
        featuredEmptyMsg == IF en THEN "No featured news yet." ELSE "Zanwu jiaodian xinwen."
        r1 == ThenRender([dom |-> d, threw |-> FALSE], lang, "latest-news-list",
                         latest5, JSString(latestEmptyMsg))
        r2 == ThenRender(r1, lang, "featured-news-list", featured,
                         JSString(featuredEmptyMsg))
        nav(r, k) == ThenRender(r, lang, CategoryMappings[k].navId,
                         Slice(OfCategory(sortedNews, CategoryMappings[k].dataCategory),
                               CategoryCount),
                         JSUndefined)
    IN nav(nav(nav(r2, 1), 2), 3)

\* the render of initIndustryNewsPage: its empty message is not translated
RenderIndustryNewsPage(d, lang, sortedNews) ==
    ThenRender([dom |-> d, threw |-> FALSE], lang, "industry-news-list",
               OfCategory(sortedNews, "industry"),
               JSString("Gai lanmu zanshi meiyou xinwen."))

\* the render of initCategoryPage: every item, whatever its category
RenderCategoryPage(d, lang, sortedNews) ==
    ThenRender([dom |-> d, threw |-> FALSE], lang, "category-news-list", sortedNews,
               JSString(DefaultEmptyMessage(lang)))

\* the array object v after a call left `after` in the array whose identity is id
Stored(v, id, after) ==
    IF v.type = "array" /\ v.id = id /\ id # 0 THEN JSArray(id, after) ELSE v

\* what the initialiser renders on sortedNews
RenderPage(init, d, lang, sortedNews) ==
    CASE init = "initHomepage" -> RenderHomepage(d, lang, sortedNews)
      [] init = "initIndustryNewsPage" -> RenderIndustryNewsPage(d, lang, sortedNews)
      [] init = "initCategoryPage" -> RenderCategoryPage(d, lang, sortedNews)

\* an initialiser past `await fetchNews()`
Resume(init) ==
    /\ pc[0] \in {"fulfilled", "rejected"}
    /\ started' = [started EXCEPT ![init] = "returned"]
    /\ IF pc[0] = "rejected"
       THEN /\ uncaught' = TRUE
            /\ UNCHANGED <<dom, newsCache, result>>
       ELSE IF NothingToShow(result[0])
       THEN UNCHANGED <<dom, newsCache, result, uncaught>>
       ELSE \E s \in SortNewsByDate(result[0].items) :
               LET r == RenderPage(init, dom, dataLang, s.returned)
                   id == result[0].id
               IN /\ dom' = r.dom
                  /\ uncaught' = (uncaught \/ r.threw)
                  /\ newsCache' = Stored(newsCache, id, s.input)
                  /\ result' = [c \in Calls |-> Stored(result[c], id, s.input)]
    /\ UNCHANGED <<dataLang, feed, requests, pc, reqOf, loaded, call, ret>>

\* initHomepage once its fetchNews() has settled
InitHomepage ==
    /\ started["initHomepage"] = "awaiting"
    /\ Resume("initHomepage")

\* initIndustryNewsPage once its fetchNews() has settled
InitIndustryNewsPage ==
    /\ started["initIndustryNewsPage"] = "awaiting"
    /\ Resume("initIndustryNewsPage")

\* initCategoryPage once its fetchNews() has settled
InitCategoryPage ==
    /\ started["initCategoryPage"] = "awaiting"
    /\ Resume("initCategoryPage")

\* the handler with three independent tests instead of an else-if chain
PageInitializersIndependent(d) ==
    (IF {"latest-news-list", "featured-news-list", "home-breaking-news-list"}
            \cap DOMAIN d # {} THEN {"initHomepage"} ELSE {})
    \cup (IF "industry-news-list" \in DOMAIN d THEN {"initIndustryNewsPage"} ELSE {})
    \cup (IF "category-news-list" \in DOMAIN d THEN {"initCategoryPage"} ELSE {})

\* the initialisers the DOMContentLoaded handler calls on the page d
PageInitializers(d) ==
    IF GetElementById(d, "latest-news-list") # <<>>
          \/ GetElementById(d, "featured-news-list") # <<>>
          \/ GetElementById(d, "home-breaking-news-list") # <<>>
    THEN {"initHomepage"}
    ELSE IF GetElementById(d, "industry-news-list") # <<>> THEN {"initIndustryNewsPage"}
    ELSE IF GetElementById(d, "category-news-list") # <<>> THEN {"initCategoryPage"}
    ELSE {}

\* DOMContentLoaded: the initialiser called runs up to its await of fetchNews()
DOMContentLoaded ==
    /\ ~loaded
    /\ loaded' = TRUE
    /\ LET inits == PageInitializers(dom)
       IN /\ started' = [i \in Initializers |->
                            IF i \in inits THEN "awaiting" ELSE started[i]]
          /\ IF inits # {} THEN FetchNews(0)
             ELSE UNCHANGED <<pc, result, requests, reqOf, newsCache, feed, dataLang>>
    /\ UNCHANGED <<dom, uncaught, call, ret>>

----------------------------------------------------------------------------
(* Direct calls of the synchronous functions *)

NoCall == [op |-> "none", containerId |-> "", items |-> JSUndefined,
           emptyMessage |-> JSUndefined, category |-> ""]
NoRet == [done |-> FALSE, returned |-> <<>>, input |-> <<>>, label |-> ""]

\* sortNewsByDate(call.items)
SortCall ==
    /\ call.op = "sortNewsByDate" /\ ~ret.done
    /\ \E s \in SortNewsByDate(call.items.items) :
          ret' = [done |-> TRUE, returned |-> s.returned, input |-> s.input, label |-> ""]
    /\ UNCHANGED <<dataLang, dom, feed, newsCache, requests, pc, result, reqOf, started,
                   loaded, uncaught, call>>

\* renderNewsList(call.containerId, call.items, call.emptyMessage)
RenderCall ==
    /\ call.op = "renderNewsList" /\ ~ret.done
    /\ LET r == RenderNewsList(dom, dataLang, call.containerId, call.items,
                               call.emptyMessage)
       IN dom' = r.dom /\ uncaught' = r.threw
    /\ ret' = [NoRet EXCEPT !.done = TRUE]
    /\ UNCHANGED <<dataLang, feed, newsCache, requests, pc, result, reqOf, started,
                   loaded, call>>

\* getCategoryLabel(call.category)
LabelCall ==
    /\ call.op = "getCategoryLabel" /\ ~ret.done
    /\ ret' = [NoRet EXCEPT !.done = TRUE,
                            !.label = GetCategoryLabel(call.category, dataLang)]
    /\ UNCHANGED <<dataLang, dom, feed, newsCache, requests, pc, result, reqOf, started,
                   loaded, uncaught, call>>

----------------------------------------------------------------------------
(* Inputs *)

Langs == {"en", "zh", "fr", Unset}

Item(title, date, category, featured, tags) ==
    [title |-> title, date |-> date, category |-> category, featured |-> featured,
     tags |-> tags]

\* every sequence over S of length at most n
SeqsUpTo(S, n) == UNION {[1..k -> S] : k \in 0..n}

ValidDates == {"2024-01-01", "2024-03-01"}

\* feed items with dates that parse: the old ones industry news, the new ones product news
DatedItems ==
    {Item("", d, IF d = "2024-01-01" THEN "industry" ELSE "product", f, <<>>) :
        d \in ValidDates, f \in BOOLEAN}

\* feed items with a date that does not parse
UndatedItems == {Item("", "TBD", "industry", f, <<>>) : f \in BOOLEAN}

\* the items of the small feeds
FeedItems == {Item("", "2024-01-01", "industry", TRUE, <<>>),
              Item("", "2024-03-01", "product", FALSE, <<>>)}

Body(type, items) == [type |-> type, id |-> 0, items |-> items]

\* what the server may hold: text that is no JSON, the JSON null, a JSON array
Feeds == {Body("malformed", <<>>), Body("null", <<>>)}
            \cup {Body("array", s) : s \in SeqsUpTo(FeedItems, MaxFeed)}

\* a feed of each kind: no JSON, null, no item, the two items
PlainFeeds ==
    {Body("malformed", <<>>), Body("null", <<>>), Body("array", <<>>),
     Body("array", <<Item("", "2024-01-01", "industry", TRUE, <<>>),
                     Item("", "2024-03-01", "product", FALSE, <<>>)>>)}

HomeFeeds == {Body("array", s) : s \in SeqsUpTo(DatedItems, MaxHomeFeed)}
                \cup {Body("array", s) : s \in SeqsUpTo(DatedItems \cup UndatedItems, MaxFeed + 1)}

\* the page holding the containers of `present`
Page(present) == [c \in present |-> StaticContent]

HomeIds == {"latest-news-list", "featured-news-list", "home-breaking-news-list",
            "home-market-insights-list", "home-supply-chain-analysis-list"}

\* a homepage, an industry page, a category page, a page without news
Layouts == {HomeIds, {"industry-news-list"}, {"category-news-list"}, {}}

SortDates == ValidDates \cup {"2024-03-01T00:00:00Z", "TBD"}
SortItems == {Item("", d, "industry", FALSE, <<>>) : d \in SortDates}

RenderItems == {Item("A", "2024-03-01", "industry", TRUE, <<"ai">>),
                Item("B", "2024-01-01", "product", FALSE, <<>>),
                Item("C", "TBD", "sports", FALSE, <<"x", "y">>),
                Item("D", "2024-03-01", "constructor", TRUE, <<>>)}
RenderIds == {"latest-news-list", "industry-news-list"}
EmptyMessages == {JSUndefined, JSString(""), JSString("Nothing here.")}
Categories == {"industry", "product", "company", "sports", "", "constructor", "toString"}

SortCalls == {[NoCall EXCEPT !.op = "sortNewsByDate", !.items = JSArray(0, s)] :
                 s \in SeqsUpTo(SortItems, MaxSortLen)}
RenderCalls ==
    {[NoCall EXCEPT !.op = "renderNewsList", !.containerId = c, !.items = i,
                    !.emptyMessage = m] :
        c \in RenderIds \cup {"category-news-list"},
        i \in {JSNull} \cup {JSArray(0, s) : s \in SeqsUpTo(RenderItems, MaxRenderLen)},
        m \in EmptyMessages}
LabelCalls == {[NoCall EXCEPT !.op = "getCategoryLabel", !.category = c] : c \in Categories}

----------------------------------------------------------------------------
(* Specifications *)

\* the script evaluated, nothing called yet
Fresh ==
    /\ newsCache = JSNull
    /\ requests = <<>>
    /\ pc = [c \in Calls |-> "idle"]
    /\ result = [c \in Calls |-> JSUndefined]
    /\ reqOf = [c \in Calls |-> 0]
    /\ started = [i \in Initializers |-> "idle"]
    /\ loaded = FALSE
    /\ uncaught = FALSE
    /\ ret = NoRet

\* a page load with other code of the page calling fetchNews() as well
Init ==
    /\ Fresh /\ call = NoCall
    /\ dataLang \in {"en", Unset}
    /\ dom \in {Page(p) : p \in Layouts}
    /\ feed \in PlainFeeds

Next ==
    \/ DOMContentLoaded
    \/ \E c \in Calls : FetchNewsCall(c)
    \/ \E c \in Calls : FetchSettles(c)
    \/ \E c \in Calls : JsonSettles(c)
    \/ InitHomepage
    \/ InitIndustryNewsPage
    \/ InitCategoryPage

Spec == Init /\ [][Next]_vars

\* a page load of any page, this script alone
InitPage ==
    /\ Fresh /\ call = NoCall
    /\ dataLang \in Langs
    /\ dom \in {Page(p) : p \in SUBSET ContainerIds}
    /\ feed \in Feeds

NextPage ==
    \/ DOMContentLoaded
    \/ FetchSettles(0)
    \/ JsonSettles(0)
    \/ InitHomepage
    \/ InitIndustryNewsPage
    \/ InitCategoryPage

SpecPage == InitPage /\ [][NextPage]_vars

\* a load of the homepage on longer feeds
InitHome ==
    /\ Fresh /\ call = NoCall
    /\ dataLang = Unset
    /\ dom \in {Page(HomeIds), Page({"featured-news-list"})}
    /\ feed \in HomeFeeds

NextHome ==
    \/ DOMContentLoaded
    \/ FetchSettles(0)
    \/ JsonSettles(0)
    \/ InitHomepage

SpecHome == InitHome /\ [][NextHome]_vars

\* one direct call of a synchronous function
InitApi ==
    /\ Fresh /\ feed = Body("null", <<>>)
    /\ \/ /\ call \in SortCalls
          /\ dataLang = Unset /\ dom = Page(RenderIds)
       \/ /\ call \in RenderCalls
          /\ dataLang \in Langs /\ dom \in {Page(p) : p \in SUBSET RenderIds}
       \/ /\ call \in LabelCalls
          /\ dataLang \in Langs /\ dom = Page(RenderIds)

NextApi == SortCall \/ RenderCall \/ LabelCall

SpecApi == InitApi /\ [][NextApi]_vars

----------------------------------------------------------------------------
(* Claims about the synchronous functions, under SpecApi *)

SortDone == call.op = "sortNewsByDate" /\ ret.done
RenderDone == call.op = "renderNewsList" /\ ret.done
LabelDone == call.op = "getCategoryLabel" /\ ret.done

Count(s, x) == Cardinality({i \in 1..Len(s) : s[i] = x})

\* a and b hold the same elements, each as often
IsPermutation(a, b) ==
    /\ Len(a) = Len(b)
    /\ \A i \in 1..Len(a) : Count(a, a[i]) = Count(b, a[i])

\* the date s parses, and x is a later date than y
Parses(s) == ~NewDate(s).nan
LaterDate(x, y) == Parses(x) /\ Parses(y) /\ NewDate(x).n > NewDate(y).n

\* no element of s is dated later than one before it
NonIncreasing(s) == \A i \in 1..Len(s) : \A j \in i..Len(s) : ~LaterDate(s[j].date, s[i].date)

AllParse(s) == \A i \in 1..Len(s) : Parses(s[i].date)

\* C3 as claimed: for every input, sortNewsByDate returns a permutation of the input
\* that is non-increasing in date, and leaves the input as it was.
C3_SortsEveryInput ==
    SortDone =>
        /\ IsPermutation(ret.returned, call.items.items)
        /\ NonIncreasing(ret.returned)
        /\ ret.input = call.items.items

\* C3 as amended: for every input sortNewsByDate returns a permutation of the input and
\* leaves the input as it was; the result is non-increasing in date when every date of
\* the input parses.
C3_SortsParsedDates ==
    SortDone =>
        /\ IsPermutation(ret.returned, call.items.items)
        /\ ret.input = call.items.items
        /\ (AllParse(call.items.items) => NonIncreasing(ret.returned))

\* three or more items with dates that parse, returned in another order than given
C3_Witness ==
    /\ SortDone
    /\ Len(call.items.items) >= 3
    /\ AllParse(call.items.items)
    /\ ret.returned # call.items.items
    /\ \E i \in 1..Len(ret.returned) : \E j \in 1..Len(ret.returned) :
          LaterDate(ret.returned[i].date, ret.returned[j].date)

\* the message the empty state shows when the caller gives none
ExpectedDefaultMessage ==
    IF dataLang = "en" THEN "No news in this category yet."
    ELSE "Gai lanmu zanshi meiyou xinwen."

\* the container holds the fragments of `items`, one each, in their order
HoldsFragments(container, items) ==
    /\ Len(dom[container]) = Len(items)
    /\ \A i \in 1..Len(items) : dom[container][i] = RenderNewsItem(items[i], dataLang)

\* the container holds one empty-state element with the text `message`
HoldsEmptyState(container, message) ==
    /\ Len(dom[container]) = 1
    /\ dom[container][1].class = "empty-state"
    /\ dom[container][1].text = message

RenderedExisting ==
    RenderDone /\ call.containerId \in DOMAIN dom /\ call.items.type = "array"

\* C4 as claimed: on an existing container, empty items leave exactly one empty-state
\* element with the supplied message (the default of the language when none is
\* supplied), and N > 0 items leave the N fragments of the items in their order.
C4_RenderAsClaimed ==
    RenderedExisting =>
        IF Len(call.items.items) = 0
        THEN HoldsEmptyState(call.containerId,
                 IF call.emptyMessage.type = "string" THEN call.emptyMessage.items[1]
                 ELSE ExpectedDefaultMessage)
        ELSE HoldsFragments(call.containerId, call.items.items)

\* C4 as amended: the default message is shown also when the message supplied is the
\* empty string.
C4_RenderReplaces ==
    RenderedExisting =>
        IF Len(call.items.items) = 0
        THEN HoldsEmptyState(call.containerId,
                 IF call.emptyMessage.type = "string" /\ call.emptyMessage.items[1] # ""
                 THEN call.emptyMessage.items[1]
                 ELSE ExpectedDefaultMessage)
        ELSE HoldsFragments(call.containerId, call.items.items)

\* two different items rendered into an existing container
C4_Witness ==
    /\ RenderedExisting
    /\ Len(call.items.items) = 2
    /\ call.items.items[1] # call.items.items[2]
    /\ Len(dom[call.containerId]) = 2

\* C5: a renderNewsList call naming a container the page does not hold raises no error
\* and changes no container; any call changes at most the container it names.
C5_RenderFrame ==
    RenderDone =>
        /\ (call.containerId \notin DOMAIN dom => ~uncaught /\ dom = Page(DOMAIN dom))
        /\ \A c \in DOMAIN dom : c # call.containerId => dom[c] = StaticContent

\* items rendered to a missing container on a page that holds other containers
C5_Witness ==
    /\ RenderDone
    /\ call.containerId \notin DOMAIN dom
    /\ DOMAIN dom # {}
    /\ call.items.type = "array" /\ Len(call.items.items) > 0

\* the label of a known category in a language
ExpectedLabel(lang, category) ==
    CASE lang = "en" /\ category = "industry" -> "Industry News"
      [] lang = "en" /\ category = "product" -> "Product Updates"
      [] lang = "en" /\ category = "company" -> "Company News"
      [] lang = "zh" /\ category = "industry" -> "Hangye Zixun"
      [] lang = "zh" /\ category = "product" -> "Chanpin Dongtai"
      [] lang = "zh" /\ category = "company" -> "Gongsi Xinwen"

\* C7: the active language is en exactly for data-lang="en" and zh otherwise;
\* getCategoryLabel returns the label of a known category in the active language and
\* any other category unchanged.
C7_LabelOrEcho ==
    LabelDone =>
        IF call.category \in {"industry", "product", "company"}
        THEN ret.label = ExpectedLabel(IF dataLang = "en" THEN "en" ELSE "zh", call.category)
        ELSE ret.label = call.category

----------------------------------------------------------------------------
(* Claims about fetchNews and newsCache, under Spec *)

Settled(c) == pc[c] \in {"fulfilled", "rejected"}
EmptyArray(v) == v.type = "array" /\ v.items = <<>>

\* C1 as claimed: whatever the outcome of a fetchNews() call, a call made once it has
\* settled is served from the cache: no request is issued after a call has settled.
C1_OneRequestEver ==
    [][(\E c \in Calls : Settled(c)) => requests' = requests]_vars

\* C1 as amended: a fetchNews() call issues a request only when it finds newsCache
\* empty; once a call has stored an array, empty or not, no call issues a request.
C1_NoRequestOnceCached ==
    [][/\ Len(requests') <= Len(requests) + 1
       /\ (Truthy(newsCache) => requests' = requests)]_vars

\* a call served from a cache that holds the empty array of the one request made
C1_Witness ==
    \E c \in Calls :
        /\ pc[c] = "fulfilled" /\ reqOf[c] = 0
        /\ EmptyArray(result[c]) /\ result[c].id = 1
        /\ Len(requests) = 1

\* the call c ends in the catch block in this step
FailsNow(c) ==
    \/ pc[c] = "fetch" /\ pc'[c] \notin {"fetch", "json"}
    \/ pc[c] = "json" /\ feed.type = "malformed" /\ pc'[c] # "json"

\* C2: a fetchNews() call whose request rejects, whose response is not ok or whose body
\* does not parse fulfils (never rejects) with an empty array, and writes nothing to
\* newsCache: the step that ends the call leaves newsCache as it was.
C2_FailureIsEmpty ==
    [][\A c \in Calls : FailsNow(c) =>
          /\ pc'[c] = "fulfilled"
          /\ EmptyArray(result'[c])
          /\ newsCache' = newsCache]_vars

\* a call has failed while newsCache held the dataset of another call
C2_Witness ==
    \E c \in Calls :
        /\ pc[c] = "fulfilled" /\ reqOf[c] > 0
        /\ EmptyArray(result[c]) /\ result[c].id = 0
        /\ newsCache.type = "array" /\ newsCache.id # reqOf[c] /\ newsCache.items # <<>>

\* C8: once newsCache holds a dataset it is never assigned again, and every call made
\* from then on returns that dataset.
C8_WrittenOnce ==
    [][newsCache.type = "array" =>
          /\ newsCache' = newsCache
          /\ \A c \in Calls : pc[c] = "idle" /\ pc'[c] = "fulfilled" =>
                result'[c] = newsCache]_vars

----------------------------------------------------------------------------
(* Claims about the page load, under SpecPage and SpecHome *)

Started == {i \in Initializers : started[i] # "idle"}

\* C9 as claimed: on DOMContentLoaded exactly one initialiser is started, whatever
\* containers the page holds.
C9_ExactlyOneStarted ==
    /\ Cardinality(Started) <= 1
    /\ (loaded => Cardinality(Started) = 1)

Holds(container) == container \in DOMAIN dom

\* C9 as amended: never more than one initialiser is started; on DOMContentLoaded it is
\* initHomepage when the page holds latest-news-list, featured-news-list or
\* home-breaking-news-list, else initIndustryNewsPage when it holds industry-news-list,
\* else initCategoryPage when it holds category-news-list, and none otherwise.
C9_AtMostOneStarted ==
    /\ Cardinality(Started) <= 1
    /\ (~loaded => Started = {})
    /\ (loaded =>
          Started =
              IF Holds("latest-news-list") \/ Holds("featured-news-list")
                    \/ Holds("home-breaking-news-list")
              THEN {"initHomepage"}
              ELSE IF Holds("industry-news-list") THEN {"initIndustryNewsPage"}
              ELSE IF Holds("category-news-list") THEN {"initCategoryPage"}
              ELSE {})

\* the industry initialiser started on a page that holds the category container too
C9_Witness ==
    /\ loaded
    /\ Holds("industry-news-list") /\ Holds("category-news-list")
    /\ Holds("home-market-insights-list")
    /\ started["initIndustryNewsPage"] # "idle"

\* the containers an initialiser renders
ContainersOf(init) ==
    CASE init = "initHomepage" -> HomeIds
      [] init = "initIndustryNewsPage" -> {"industry-news-list"}
      [] init = "initCategoryPage" -> {"category-news-list"}

\* C10: an initialiser that has returned has rendered every container of its page the
\* page holds: the empty-state element when the fetch failed or brought no item.
C10_RendersEmptyState ==
    \A i \in Initializers : started[i] = "returned" =>
        \A c \in ContainersOf(i) \cap DOMAIN dom :
            IF NothingToShow(result[0])
            THEN Len(dom[c]) = 1 /\ dom[c][1].class = "empty-state"
            ELSE \A k \in 1..Len(dom[c]) : dom[c][k].class # "static"

\* the fragments a container shows
ItemsShown(container) == SelectSeq(dom[container], LAMBDA e : e.class = "news-item")

Fragments(items) == [i \in 1..Len(items) |-> RenderNewsItem(items[i], dataLang)]

\* shown holds the k most recent fragments of pool (all of them when pool has fewer),
\* most recent first
MostRecent(shown, pool, k) ==
    /\ Len(shown) = IF Len(pool) < k THEN Len(pool) ELSE k
    /\ NonIncreasing(shown)
    /\ \A i \in 1..Len(shown) : Count(shown, shown[i]) <= Count(pool, shown[i])
    /\ \A i \in 1..Len(pool) : \A j \in 1..Len(shown) :
          LaterDate(pool[i].date, shown[j].date) =>
              Count(shown, pool[i]) = Count(pool, pool[i])

HomepageDone ==
    /\ started["initHomepage"] = "returned"
    /\ result[0].type = "array" /\ Len(result[0].items) > 0

HomepageShows ==
    /\ Holds("latest-news-list") =>
          /\ Len(ItemsShown("latest-news-list")) = Len(dom["latest-news-list"])
          /\ MostRecent(ItemsShown("latest-news-list"), Fragments(result[0].items), 5)
    /\ Holds("featured-news-list") =>
          /\ \A k \in 1..Len(dom["featured-news-list"]) :
                /\ dom["featured-news-list"][k].class # "static"
                /\ dom["featured-news-list"][k].class = "news-item" =>
                      dom["featured-news-list"][k].featuredBadge # ""
          /\ MostRecent(ItemsShown("featured-news-list"),
                        Fragments(SelectSeq(result[0].items, LAMBDA x : x.featured)), 3)

\* C6 as claimed: after initHomepage on a non-empty dataset, latest-news-list holds the
\* min(5, n) most recent items, most recent first, and featured-news-list the up to 3
\* most recent featured items, most recent first, and no item that is not featured.
C6_HomepageAnyDataset == HomepageDone => HomepageShows

\* C6 as amended: the same, on a non-empty dataset whose dates all parse.
C6_HomepageParsedDates == HomepageDone /\ AllParse(result[0].items) => HomepageShows

\* a dataset of more than 5 items, more than 3 of them featured, not given most recent
\* first, shown in both lists
C6_Witness ==
    /\ HomepageDone
    /\ AllParse(result[0].items)
    /\ Len(result[0].items) > 5
    /\ Len(SelectSeq(result[0].items, LAMBDA x : x.featured)) > 3
    /\ ~NonIncreasing(result[0].items)
    /\ Holds("latest-news-list") /\ Holds("featured-news-list")
    /\ Len(ItemsShown("latest-news-list")) = 5
    /\ Len(ItemsShown("featured-news-list")) = 3

====
